---- MODULE Spec2Model ----
(***************************************************************************)
(* Persona store, version history and undo buffer of the persona editor.   *)
(*                                                                         *)
(* The store and its save/delete handlers are App (src/unnamed/part_004),  *)
(* the editor and the create dialog are PersonaEditorModal and             *)
(* CreatePersonaModal (src/unnamed/part_000, second half), the gateway is  *)
(* src/services/geminiService.ts.  The editor of the first half of         *)
(* part_000, which regenerates the summary after a quiet period, is        *)
(* PassiveSpec.                                                            *)
(*                                                                         *)
(* Strings are modelled by a few representative values: "" is the empty    *)
(* string, " " a string of white space only.  A JavaScript object is a     *)
(* function from its keys to their values, so a missing key is a key that  *)
(* is not in the DOMAIN; reading one yields undefined, which is NoId for   *)
(* id, Absent for mbtiProfile, <<>> for sources and "" for a text field    *)
(* (the code only ever tests these for truthiness).                        *)
(***************************************************************************)
EXTENDS Integers, Sequences, FiniteSets, TLC

\* ------------------------------------------------------------------ bounds
MaxSaveCalls == 2      \* calls of handleSavePersona in one session
MaxPersonas == 3       \* personas in the store
MaxSaves == 2          \* handleSavePersona calls in flight
MaxCalls == 2          \* gateway calls of the editor in flight
MaxFlows == 1          \* document uploads of the create dialog in flight

\* ------------------------------------------------------- program constants
HistoryCap == 10       \* .slice(0, 10)
FirstNow == 2          \* any Date.now() is later than the built-in id '1'
DefaultId == 1         \* id: '1' of the built-in persona
NoId == 0              \* id: undefined (a draft that has no id)

Absent == "absent"     \* mbtiProfile: key missing or undefined
GenericChange == "generic"   \* the fixed change description of the gateway

\* ------------------------------------------------------------- value sets

Trim(s) == IF s = " " THEN "" ELSE s

\* { ...a, ...b } for two objects: b's keys win
Spread(a, b) ==
    [k \in (DOMAIN a) \cup (DOMAIN b) |-> IF k \in DOMAIN b THEN b[k] ELSE a[k]]

\* const emptyPersona: PersonaState = { name: '', ..., summary: '', sources: [] }
emptyPersona ==
    [name |-> "", role |-> "", tone |-> "", personality |-> "", worldview |-> "",
     experience |-> "", other |-> "", summary |-> "", sources |-> <<>>]

\* obj[k] of JavaScript: undefined (here: the default d) when the key is missing
Get(r, k, d) == IF k \in DOMAIN r THEN r[k] ELSE d

\* a.slice(0, n)
Slice(a, n) == SubSeq(a, 1, IF Len(a) < n THEN Len(a) ELSE n)

\* an optional value (T | null) is a sequence of length 0 or 1
Null == <<>>
Some(x) == <<x>>

\* ---------------------------------------------------------------- gateway
\* what the model does with a request: it answers with some text, or it fails
ChangeResponses == {[ok |-> TRUE, text |-> "chg"], [ok |-> TRUE, text |-> " "], [ok |-> FALSE, text |-> ""]}
ShortResponses == {[ok |-> TRUE, text |-> "a"], [ok |-> FALSE, text |-> ""]}

\* the texts of the model that stand for more than 50 characters: what the gateway
\* writes as a summary
LongTexts == {"b"}

\* fullSummary.substring(0, 50) + (fullSummary.length > 50 ? '...' : '')
Truncate(s) == IF s \in LongTexts THEN "b50..." ELSE s

\* a change description that is empty when the call fails or answers nothing
generateChangeSummaryOrNothing(resp) == IF resp.ok THEN Trim(resp.text) ELSE ""

\* return response.text.trim() || "パラメータが更新されました。"; the same text on error
generateChangeSummary(resp) ==
    IF resp.ok /\ Trim(resp.text) # "" THEN Trim(resp.text) ELSE GenericChange

\* a short form that is empty when the call fails
generateShortSummaryOrNothing(fullSummary, resp) ==
    IF Trim(fullSummary) = "" THEN ""
    ELSE IF resp.ok THEN Trim(resp.text) ELSE ""

\* if (!fullSummary.trim()) return ""; the answer trimmed; on error the truncation
generateShortSummary(fullSummary, resp) ==
    IF Trim(fullSummary) = "" THEN ""
    ELSE IF resp.ok THEN Trim(resp.text) ELSE Truncate(fullSummary)

generateShortTone(fullTone, resp) ==
    IF Trim(fullTone) = "" THEN ""
    ELSE IF resp.ok THEN Trim(resp.text) ELSE Truncate(fullTone)

\* ------------------------------------------------------------------ store
VARIABLES
    personas,            \* useState<Persona[]>: the store, in list order
    now,                 \* the value the clock had when Date.now() was last read
    elapsed,             \* the user has acted since: the clock has advanced
    saves,               \* handleSavePersona calls that have started and not yet committed
    saveCalls,           \* how often handleSavePersona has been called
    flows,               \* handleFileUploadForExtraction calls (text file) waiting for the gateway
    isEditorModalOpen,
    isCreateModalOpen,
    editingPersona,      \* Persona | null
    createLoading,       \* isLoading of CreatePersonaModal
    parameters,          \* the editor's PersonaState & { id }
    previousParameters,  \* the undo buffer: PersonaState | null
    isLoading,           \* isLoading of PersonaEditorModal
    activeTab,
    error,               \* the editor's error banner: TRUE when a message is set
    calls,               \* gateway calls of the editor waiting for their response
    timers,              \* setTimeout timers of debounce() that have not fired yet
    isInitialMount,      \* isInitialMount.current of the editor with the passive regeneration
    last                 \* the handler that ran last and what it did (for the properties)

vars == <<personas, now, elapsed, saves, saveCalls, flows, isEditorModalOpen, isCreateModalOpen, editingPersona,
          createLoading, parameters, previousParameters, isLoading, activeTab, error, calls,
          timers, isInitialMount, last>>

appVars == <<isEditorModalOpen, isCreateModalOpen, editingPersona>>
editorVars == <<parameters, previousParameters, isLoading, activeTab, error, calls>>
\* what only the editor with the debounced summary regeneration has
passiveVars == <<timers, isInitialMount>>

\* the built-in persona of initialDefaultPersonas, with the history h
DefaultPersona(h) ==
    [id |-> DefaultId, name |-> "El", role |-> "a", tone |-> "a", personality |-> "a",
     worldview |-> "a", experience |-> "a", other |-> "a", summary |-> "a",
     shortSummary |-> "a", shortTone |-> "a", history |-> h]

\* a history that earlier sessions wrote to localStorage: n entries, most recent
\* first, entry k taken k clock ticks before this session started.  JSON.stringify
\* wrote no key whose value was undefined (mbtiProfile, sources).
StoredEntry(k) ==
    [state |-> [name |-> "El", role |-> IF k % 2 = 0 THEN "a" ELSE "b", tone |-> "a",
                personality |-> "a", worldview |-> "a", experience |-> "a", other |-> "a",
                summary |-> "a"],
     timestamp |-> FirstNow - k,
     changeSummary |-> GenericChange]

StoredHistory(n) == [k \in 1..n |-> StoredEntry(k)]

\* personas.find(p => p.id === id): the first persona with this id, or none
Find(ps, id) ==
    LET hits == {i \in 1..Len(ps) : ps[i].id = id}
    IN IF hits = {} THEN Null
       ELSE Some(ps[CHOOSE i \in hits : \A j \in hits : i <= j])

\* const oldState = { name: existingPersona.name, ..., sources: existingPersona.sources }
OldStateOf(existingPersona) ==
    [name |-> existingPersona.name, role |-> existingPersona.role,
     tone |-> existingPersona.tone, personality |-> existingPersona.personality,
     worldview |-> existingPersona.worldview, experience |-> existingPersona.experience,
     other |-> Get(existingPersona, "other", ""), summary |-> existingPersona.summary,
     mbtiProfile |-> Get(existingPersona, "mbtiProfile", Absent),
     sources |-> Get(existingPersona, "sources", <<>>)]

NewHistoryEntry(oldState, t, changeSummary) ==
    [state |-> oldState, timestamp |-> t, changeSummary |-> changeSummary]

\* [newHistoryEntry, ...existingPersona.history].slice(0, 10)
UpdatedHistory(newHistoryEntry, history) ==
    Slice(<<newHistoryEntry>> \o history, HistoryCap)

\* { ...personaToSave, shortSummary, shortTone }
PersonaWithSummaries(personaToSave, ssResp, stResp) ==
    Spread(personaToSave,
           [shortSummary |-> IF Get(personaToSave, "summary", "") # ""
                             THEN generateShortSummary(personaToSave.summary, ssResp) ELSE "",
            shortTone |-> IF Get(personaToSave, "tone", "") # ""
                          THEN generateShortTone(personaToSave.tone, stResp) ELSE ""])

\* { ...existingPersona, ...personaWithSummaries, history: updatedHistory }
UpdatedPersona(existingPersona, personaWithSummaries, t, changeSummary) ==
    Spread(Spread(existingPersona, personaWithSummaries),
           [history |-> UpdatedHistory(
                NewHistoryEntry(OldStateOf(existingPersona), t, changeSummary),
                existingPersona.history)])

\* Date.now().toString()
NewId(t) == t

\* { ...personaWithSummaries, id: Date.now().toString(), history: [] }
NewPersona(personaWithSummaries, t) ==
    Spread(personaWithSummaries, [id |-> NewId(t), history |-> <<>>])

\* a replacement that adds the persona when the store holds none with its id
ReplaceOrAppendById(prevPersonas, updatedPersona) ==
    IF \E i \in 1..Len(prevPersonas) : prevPersonas[i].id = updatedPersona.id
    THEN [i \in 1..Len(prevPersonas) |->
             IF prevPersonas[i].id = updatedPersona.id THEN updatedPersona ELSE prevPersonas[i]]
    ELSE Append(prevPersonas, updatedPersona)

\* prevPersonas.map(p => p.id === updatedPersona.id ? updatedPersona : p)
ReplaceById(prevPersonas, updatedPersona) ==
    [i \in 1..Len(prevPersonas) |->
        IF prevPersonas[i].id = updatedPersona.id THEN updatedPersona ELSE prevPersonas[i]]

\* prev.filter(p => p.id !== personaId)
RECURSIVE RemoveById(_, _)
RemoveById(prev, personaId) ==
    IF prev = <<>> THEN <<>>
    ELSE IF Head(prev).id = personaId THEN RemoveById(Tail(prev), personaId)
         ELSE <<Head(prev)>> \o RemoveById(Tail(prev), personaId)

RemoveAt(q, i) == SubSeq(q, 1, i - 1) \o SubSeq(q, i + 1, Len(q))

\* ----------------------------------------------------------------- inputs
Edits == {<<"name", "">>, <<"role", "b">>}
CreateNames == {" ", "Eve"}
CreateSummaries == {""}

\* what the schema of generateWithSchema requires of an extraction result
Required(n, v) ==
    [name |-> n, role |-> v, tone |-> "a", personality |-> "a", worldview |-> "a",
     experience |-> "a"]

\* extraction results: `other` is optional, every text may be empty
ExtractResults ==
    {Required("Eve", "b"), Spread(Required("", "b"), [other |-> ""])}

SummaryResponses == {[ok |-> TRUE, text |-> "b"], [ok |-> FALSE, text |-> ""]}

\* updatedParameters of a refinement answer: whatever keys the parsed JSON carries
RefineResults == {[role |-> "b"], [id |-> DefaultId]}

\* what updateParamsFromSummary, extractParamsFromDoc and createPersonaFromWeb answer
SyncResults == {Required("El", "c")}
DocResults == {Spread(Required("El", "b"), [other |-> "b"])}
WebResults == {Required("Eve", "b")}

\* the stored versions of the persona the editor is opened on
MaxRevert == 2

\* the tabs of the editor; the chat tab offers none of the handlers below
Tabs == {"editor", "ai_tools"}

\* the parsed content of an uploaded .json file
ImportRecords ==
    {[role |-> "b"],
     [name |-> ""],
     [name |-> "Eve", summary |-> "b", id |-> DefaultId, history |-> StoredHistory(1)]}

\* --------------------------------------------------------------- initial
\* `last` after a step that no property asks about
Idle == [op |-> "other", id |-> NoId, origin |-> "none"]

\* the application as it starts with one persona in localStorage
Started(storedPersonas) ==
    /\ personas = storedPersonas
    /\ now = FirstNow - 1
    /\ elapsed = TRUE
    /\ saves = <<>>
    /\ saveCalls = 0
    /\ flows = <<>>
    /\ isEditorModalOpen = FALSE
    /\ isCreateModalOpen = FALSE
    /\ editingPersona = Null
    /\ createLoading = FALSE
    /\ parameters = emptyPersona
    /\ previousParameters = Null
    /\ isLoading = FALSE
    /\ activeTab = "editor"
    /\ error = FALSE
    /\ calls = <<>>
    /\ timers = <<>>
    /\ isInitialMount = FALSE
    /\ last = Idle

\* the built-in persona after enough saves in earlier sessions to fill its history
Init == Started(<<DefaultPersona(StoredHistory(HistoryCap))>>)

Did(op, id, origin) == last' = [op |-> op, id |-> id, origin |-> origin]

\* the gateway calls of a save that threw, of those handleSavePersona made
FailedCalls(personaToSave, updating, ssResp, stResp, chgResp) ==
    {c \in {"shortSummary"} : Trim(Get(personaToSave, "summary", "")) # "" /\ ~ssResp.ok}
    \cup {c \in {"shortTone"} : Trim(Get(personaToSave, "tone", "")) # "" /\ ~stResp.ok}
    \cup {c \in {"changeSummary"} : updating /\ ~chgResp.ok}

\* a commit of handleSavePersona, with the calls that had failed
DidSave(op, id, origin, failed) ==
    last' = [op |-> op, id |-> id, origin |-> origin, failed |-> failed]

EditorOpen == isEditorModalOpen /\ editingPersona # Null
NoModal == ~isEditorModalOpen /\ ~isCreateModalOpen

\* the editor while no PersonaEditorModal is mounted
EditorUnmounted ==
    /\ parameters' = emptyPersona
    /\ previousParameters' = Null
    /\ isLoading' = FALSE
    /\ activeTab' = "editor"
    /\ error' = FALSE
    /\ calls' = <<>>

\* useState initialiser and the reset effect on [initialPersona, isOpen]
InitialParameters(initialPersona) == Spread(emptyPersona, initialPersona)

EditorReset(initialPersona) ==
    /\ parameters' = InitialParameters(initialPersona)
    /\ previousParameters' = Null
    /\ error' = FALSE
    /\ activeTab' = "editor"

MarkDead(q) == [i \in 1..Len(q) |-> [q[i] EXCEPT !.live = FALSE]]

\* Date.now() and new Date(): between two reads with no user input in between (two
\* gateway answers handled one after the other) the clock may stand still; a user
\* never acts twice within one value of the clock
ClockReads == IF elapsed THEN {now + 1} ELSE {now, now + 1}

\* a step the user takes, which reads no clock
UserStep == now' = now /\ elapsed' = TRUE

handleOpenCreateModal ==
    /\ NoModal
    /\ isCreateModalOpen' = TRUE
    /\ createLoading' = FALSE
    /\ last' = Idle
    /\ UserStep
    /\ UNCHANGED <<personas, saves, saveCalls, flows, isEditorModalOpen, editingPersona, editorVars>>

handleOpenEditorModal(i) ==
    /\ NoModal
    /\ i \in 1..Len(personas)
    /\ editingPersona' = Some(personas[i])
    /\ isEditorModalOpen' = TRUE
    /\ EditorReset(personas[i])
    /\ isLoading' = FALSE
    /\ calls' = <<>>
    /\ last' = Idle
    /\ UserStep
    /\ UNCHANGED <<personas, saves, saveCalls, flows, isCreateModalOpen, createLoading>>

handleCloseModals ==
    /\ ~NoModal
    /\ isEditorModalOpen' = FALSE
    /\ isCreateModalOpen' = FALSE
    /\ editingPersona' = Null
    /\ createLoading' = FALSE
    /\ EditorUnmounted
    /\ saves' = MarkDead(saves)
    /\ flows' = MarkDead(flows)
    /\ last' = Idle
    /\ UserStep
    /\ UNCHANGED <<personas, saveCalls>>

handleDeletePersona(i) ==
    /\ NoModal
    /\ i \in 1..Len(personas)
    /\ personas' = RemoveById(personas, personas[i].id)
    /\ Did("delete", personas[i].id, "none")
    /\ UserStep
    /\ UNCHANGED <<saves, saveCalls, flows, appVars, createLoading, editorVars>>

\* the part of handleSavePersona after its last await: the commit
CommitEffect(sv, ssResp, stResp, chgResp, t) ==
    LET pws == PersonaWithSummaries(sv.draft, ssResp, stResp)
        existingPersona == Find(sv.closure, Get(pws, "id", NoId))
        mine == sv.origin = "editor" /\ sv.live
    IN /\ now' = t
       /\ elapsed' = FALSE
       /\ IF existingPersona # Null
          THEN LET updatedPersona ==
                       UpdatedPersona(existingPersona[1], pws, t, generateChangeSummary(chgResp))
               IN /\ personas' = ReplaceById(personas, updatedPersona)
                  /\ editingPersona' = Some(updatedPersona)
                  /\ UNCHANGED <<isEditorModalOpen, isCreateModalOpen, createLoading>>
                  /\ IF isEditorModalOpen
                     THEN /\ EditorReset(updatedPersona)
                          /\ isLoading' = IF mine THEN FALSE ELSE isLoading
                          /\ UNCHANGED calls
                     ELSE UNCHANGED editorVars
                  /\ DidSave("update", updatedPersona.id, sv.origin,
                             FailedCalls(sv.draft, TRUE, ssResp, stResp, chgResp))
          ELSE LET newPersona == NewPersona(pws, t)
               IN /\ Len(personas) < MaxPersonas
                  /\ personas' = Append(personas, newPersona)
                  /\ isCreateModalOpen' = FALSE
                  /\ createLoading' = FALSE
                  /\ editingPersona' = Some(newPersona)
                  /\ isEditorModalOpen' = TRUE
                  /\ EditorReset(newPersona)
                  /\ isLoading' = IF isEditorModalOpen /\ ~mine THEN isLoading ELSE FALSE
                  /\ UNCHANGED calls
                  /\ DidSave("create", newPersona.id, sv.origin,
                             FailedCalls(sv.draft, FALSE, ssResp, stResp, chgResp))

\* handleSavePersona(personaToSave), called through the onSave of a render in which
\* the store was `closure`.  With an empty summary and tone and no persona to update
\* the function awaits nothing and commits within the call.
InvokeSave(personaToSave, origin, closure, rest, user) ==
    LET sv == [draft |-> personaToSave, closure |-> closure, origin |-> origin, live |-> TRUE]
        immediate == /\ Get(personaToSave, "summary", "") = ""
                     /\ Get(personaToSave, "tone", "") = ""
                     /\ Find(closure, Get(personaToSave, "id", NoId)) = Null
        none == [ok |-> FALSE, text |-> ""]
    IN /\ saveCalls < MaxSaveCalls
       /\ saveCalls' = saveCalls + 1
       /\ IF immediate
          THEN /\ \E t \in (IF user THEN {now + 1} ELSE ClockReads) :
                      CommitEffect(sv, none, none, none, t)
               /\ flows' = MarkDead(rest)
               /\ UNCHANGED saves
          ELSE /\ Len(saves) < MaxSaves
               /\ saves' = Append(saves, sv)
               /\ flows' = rest
               /\ isLoading' = IF origin = "editor" THEN TRUE ELSE isLoading
               /\ createLoading' = IF origin = "create" \/ origin = "import"
                                   THEN TRUE ELSE createLoading
               /\ last' = Idle
               /\ now' = now
               /\ elapsed' = (user \/ elapsed)
               /\ UNCHANGED <<personas, appVars, parameters, previousParameters,
                              activeTab, error, calls>>

\* handleSavePersona resumes after its awaits
SaveCommit(i) ==
    /\ i \in 1..Len(saves)
    /\ \E ssResp \in ShortResponses, stResp \in ShortResponses, chgResp \in ChangeResponses,
          t \in ClockReads :
          CommitEffect(saves[i], ssResp, stResp, chgResp, t)
    /\ saves' = RemoveAt(saves, i)
    /\ flows' = IF last'.op = "create" THEN MarkDead(flows) ELSE flows
    /\ UNCHANGED saveCalls

\* CreatePersonaModal.handleSave; the button is disabled while isLoading || !name.trim()
CreateSave(name, summary) ==
    /\ isCreateModalOpen
    /\ ~createLoading
    /\ Trim(name) # ""
    /\ InvokeSave(Spread(emptyPersona, [name |-> name, summary |-> summary]), "create",
                  personas, flows, TRUE)

\* the imported record passed on as it was parsed: ({ ...personaState, ...importedData })
PersonaStateOfImportWhole(importedData) ==
    Spread([name |-> "", role |-> "", tone |-> "", personality |-> "", worldview |-> "",
            experience |-> "", other |-> "", summary |-> "", sources |-> <<>>,
            mbtiProfile |-> Absent], importedData)

\* handleFileUploadForExtraction with a .json file
PersonaStateOfImport(importedData) ==
    [name |-> Get(importedData, "name", ""), role |-> Get(importedData, "role", ""),
     tone |-> Get(importedData, "tone", ""), personality |-> Get(importedData, "personality", ""),
     worldview |-> Get(importedData, "worldview", ""),
     experience |-> Get(importedData, "experience", ""),
     other |-> Get(importedData, "other", ""), summary |-> Get(importedData, "summary", ""),
     sources |-> Get(importedData, "sources", <<>>),
     mbtiProfile |-> Get(importedData, "mbtiProfile", Absent)]

\* an import that checks nothing
ImportUnchecked(importedData) == FALSE

\* typeof importedData.name === 'undefined'
ImportRejected(importedData) == "name" \notin DOMAIN importedData

ImportJson(importedData) ==
    /\ isCreateModalOpen
    /\ IF ImportRejected(importedData)
       THEN /\ Did("importRejected", NoId, "import")
            /\ UserStep
            /\ UNCHANGED <<personas, saves, saveCalls, flows, appVars, createLoading, editorVars>>
       ELSE InvokeSave(PersonaStateOfImport(importedData), "import", personas, flows, TRUE)

\* handleFileUploadForExtraction with a .txt file: up to the first await
UploadText ==
    /\ isCreateModalOpen
    /\ Len(flows) < MaxFlows
    /\ flows' = Append(flows, [closure |-> personas, live |-> TRUE])
    /\ createLoading' = TRUE
    /\ last' = Idle
    /\ UserStep
    /\ UNCHANGED <<personas, saves, saveCalls, appVars, editorVars>>

\* ... extractParamsFromDoc or generateSummaryFromParams threw
UploadFailed(i) ==
    /\ i \in 1..Len(flows)
    /\ flows' = RemoveAt(flows, i)
    /\ createLoading' = IF flows[i].live THEN FALSE ELSE createLoading
    /\ last' = Idle
    /\ UNCHANGED <<personas, now, elapsed, saves, saveCalls, appVars, editorVars>>

\* ... both answered: await onSave({ ...extractedParams, summary })
UploadExtracted(i, extractedParams, summary) ==
    /\ i \in 1..Len(flows)
    /\ InvokeSave(Spread(extractedParams, [summary |-> summary]), "doc", flows[i].closure,
                  RemoveAt(flows, i), FALSE)

\* ParameterDetailModal Done -> handleSaveField(field, value)
handleSaveField(field, value) ==
    /\ EditorOpen
    /\ parameters' = Spread(parameters, [k \in {field} |-> value])
    /\ last' = Idle
    /\ UserStep
    /\ UNCHANGED <<personas, saves, saveCalls, flows, appVars, createLoading, previousParameters,
                   isLoading, activeTab, error, calls>>

\* PersonaEditorModal.handleSave; the button is disabled while isLoading || !parameters.name
handleSave ==
    /\ EditorOpen
    /\ ~isLoading
    /\ parameters.name # ""
    /\ InvokeSave(parameters, "editor", personas, flows, TRUE)

handleTabChange(tab) ==
    /\ EditorOpen
    /\ tab # activeTab
    /\ activeTab' = tab
    /\ last' = Idle
    /\ UserStep
    /\ UNCHANGED <<personas, saves, saveCalls, flows, appVars, createLoading, parameters,
                   previousParameters, isLoading, error, calls>>

\* a call of the editor to the gateway, up to its await; parameters is the closure's
Dispatch(kind, closure) == calls' = Append(calls, [kind |-> kind, snap |-> closure])

\* AiToolsPanel.handleRefinementChatMessageSend up to its await.  isRefinementChatLoading
\* is state of AiToolsPanel, which is mounted anew whenever the tab is entered.
handleRefinementChatMessageSend ==
    /\ EditorOpen
    /\ activeTab = "ai_tools"
    /\ Len(calls) < MaxCalls
    /\ Dispatch("refine", emptyPersona)
    /\ error' = FALSE
    /\ last' = Idle
    /\ UserStep
    /\ UNCHANGED <<personas, saves, saveCalls, flows, appVars, createLoading, parameters,
                   previousParameters, isLoading, activeTab>>

\* a refinement that takes a snapshot for undo when its answer is merged
RefinementAnsweredArming(i, updatedParameters) ==
    /\ i \in 1..Len(calls)
    /\ calls[i].kind = "refine"
    /\ parameters' = Spread(parameters, updatedParameters)
    /\ previousParameters' = Some(parameters)
    /\ calls' = RemoveAt(calls, i)
    /\ Did("answered", NoId, "refine")
    /\ UNCHANGED <<personas, now, elapsed, saves, saveCalls, flows, appVars, createLoading,
                   isLoading, activeTab, error>>

\* setParameters(prev => ({ ...prev, ...updatedParameters }))
RefinementAnswered(i, updatedParameters) ==
    /\ i \in 1..Len(calls)
    /\ calls[i].kind = "refine"
    /\ parameters' = Spread(parameters, updatedParameters)
    /\ calls' = RemoveAt(calls, i)
    /\ Did("answered", NoId, "refine")
    /\ UNCHANGED <<personas, now, elapsed, saves, saveCalls, flows, appVars, createLoading,
                   previousParameters, isLoading, activeTab, error>>

RefinementFailed(i) ==
    /\ i \in 1..Len(calls)
    /\ calls[i].kind = "refine"
    /\ error' = TRUE
    /\ calls' = RemoveAt(calls, i)
    /\ Did("failed", NoId, "refine")
    /\ UNCHANGED <<personas, now, elapsed, saves, saveCalls, flows, appVars, createLoading, parameters,
                   previousParameters, isLoading, activeTab>>

\* a buffer that keeps the snapshot it holds
ArmKeepingFirst(previous, snapshot) == IF previous = Null THEN Some(snapshot) ELSE previous

\* a buffer that stacks its snapshots
ArmStacking(previous, snapshot) == <<snapshot>> \o previous

\* setPreviousParameters(parameters): the one slot takes the snapshot
Arm(previous, snapshot) == Some(snapshot)

\* a catch block that leaves the buffer as it is
KeptOnError(previous) == previous

\* setPreviousParameters(null) in the catch block of an armed handler
ClearedOnError(previous) == Null

\* the steps every armed handler takes before its await
ArmAndDispatch(kind, closure) ==
    /\ Len(calls) < MaxCalls
    /\ error' = FALSE
    /\ isLoading' = TRUE
    /\ previousParameters' = Arm(previousParameters, parameters)
    /\ Dispatch(kind, closure)
    /\ Did("arm", NoId, "none")
    /\ UserStep
    /\ UNCHANGED <<personas, saves, saveCalls, flows, appVars, createLoading, parameters, activeTab>>

\* the catch block of an armed handler
ArmedCallFailed(i, kind) ==
    /\ i \in 1..Len(calls)
    /\ calls[i].kind = kind
    /\ error' = TRUE
    /\ previousParameters' = ClearedOnError(previousParameters)
    /\ isLoading' = FALSE
    /\ calls' = RemoveAt(calls, i)
    /\ Did("failed", NoId, kind)
    /\ UNCHANGED <<personas, now, elapsed, saves, saveCalls, flows, appVars, createLoading,
                   parameters, activeTab>>

\* handleSyncFromSummary up to its await; the button is disabled while
\* isLoading || !parameters.summary
handleSyncFromSummary ==
    /\ EditorOpen
    /\ ~isLoading
    /\ Trim(parameters.summary) # ""
    /\ ArmAndDispatch("sync", emptyPersona)

\* a merge in which the editor state wins over the result
SyncMergedUnder(prev, extractedParams) == Spread(extractedParams, prev)

\* prev => ({ ...prev, ...extractedParams })
SyncMerged(prev, extractedParams) == Spread(prev, extractedParams)

\* setParameters(prev => ({ ...prev, ...extractedParams })): prev is the editor state
\* at the time the answer is handled
SyncAnswered(i, extractedParams) ==
    /\ i \in 1..Len(calls)
    /\ calls[i].kind = "sync"
    /\ parameters' = SyncMerged(parameters, extractedParams)
    /\ isLoading' = FALSE
    /\ calls' = RemoveAt(calls, i)
    /\ Did("answered", NoId, "sync")
    /\ UNCHANGED <<personas, now, elapsed, saves, saveCalls, flows, appVars, createLoading,
                   previousParameters, activeTab, error>>

SyncFailed(i) == ArmedCallFailed(i, "sync")

\* handleExtractFromDoc of the earlier revision of the editor, up to its await; the
\* button is disabled while isLoading || !referenceText
handleExtractFromDoc ==
    /\ EditorOpen
    /\ ~isLoading
    /\ ArmAndDispatch("doc", emptyPersona)

\* { ...prev, ...extractedParams, other: prev.other || extractedParams.other || '' }
MergeExtracted(prev, extractedParams) ==
    Spread(Spread(prev, extractedParams),
           [other |-> IF prev.other # "" THEN prev.other ELSE Get(extractedParams, "other", "")])

DocAnswered(i, extractedParams) ==
    /\ i \in 1..Len(calls)
    /\ calls[i].kind = "doc"
    /\ parameters' = MergeExtracted(parameters, extractedParams)
    /\ isLoading' = FALSE
    /\ calls' = RemoveAt(calls, i)
    /\ Did("answered", NoId, "doc")
    /\ UNCHANGED <<personas, now, elapsed, saves, saveCalls, flows, appVars, createLoading,
                   previousParameters, activeTab, error>>

DocFailed(i) == ArmedCallFailed(i, "doc")

\* AiToolsPanel.handleCreateFromWeb up to its await: the Generate button is disabled
\* while isLoading, the Enter key of the topic input is not
handleCreateFromWeb ==
    /\ EditorOpen
    /\ activeTab = "ai_tools"
    /\ ArmAndDispatch("web", parameters)

\* const newParams = { ...parameters, ...personaState }; setParameters(newParams);
\* await handleGenerateSummary(newParams), which returns at once without a name
WebAnswered(i, personaState) ==
    /\ i \in 1..Len(calls)
    /\ calls[i].kind = "web"
    /\ LET newParams == Spread(calls[i].snap, personaState)
       IN /\ parameters' = newParams
          /\ IF newParams.name = ""
             THEN /\ error' = TRUE
                  /\ isLoading' = FALSE
                  /\ activeTab' = "editor"
                  /\ calls' = RemoveAt(calls, i)
             ELSE /\ error' = FALSE
                  /\ isLoading' = TRUE
                  /\ activeTab' = activeTab
                  /\ calls' = Append(RemoveAt(calls, i), [kind |-> "websum", snap |-> emptyPersona])
    /\ last' = Idle
    /\ UNCHANGED <<personas, now, elapsed, saves, saveCalls, flows, appVars, createLoading,
                   previousParameters>>

WebFailed(i) == ArmedCallFailed(i, "web")

\* handleGenerateSummary resumes within handleCreateFromWeb, which goes on to
\* setActiveTab('editor') whether the summary came or not
WebSummaryDone(i, resp) ==
    /\ i \in 1..Len(calls)
    /\ calls[i].kind = "websum"
    /\ parameters' = IF resp.ok THEN Spread(parameters, [summary |-> resp.text]) ELSE parameters
    /\ error' = IF resp.ok THEN error ELSE TRUE
    /\ isLoading' = FALSE
    /\ activeTab' = "editor"
    /\ calls' = RemoveAt(calls, i)
    /\ IF resp.ok THEN last' = Idle ELSE Did("failed", NoId, "websum")
    /\ UNCHANGED <<personas, now, elapsed, saves, saveCalls, flows, appVars, createLoading,
                   previousParameters>>

\* handleUndo; its button is rendered only while previousParameters is set, and the
\* handler tests it again
handleUndo ==
    /\ EditorOpen
    /\ activeTab = "editor"
    /\ IF previousParameters # Null
       THEN /\ parameters' = previousParameters[1]
            /\ previousParameters' = Null
            /\ Did("undo", NoId, "armed")
       ELSE /\ UNCHANGED <<parameters, previousParameters>>
            /\ Did("undo", NoId, IF last.op = "undo" THEN "again" ELSE "empty")
    /\ UserStep
    /\ UNCHANGED <<personas, saves, saveCalls, flows, appVars, createLoading, isLoading,
                   activeTab, error, calls>>

\* the spread the other way round: ({ ...historyEntry.state, ...prev })
RevertedUnder(prev, historyEntry) == Spread(historyEntry.state, prev)

\* setParameters(prev => ({ ...prev, ...historyEntry.state }))
Reverted(prev, historyEntry) == Spread(prev, historyEntry.state)

\* handleRevert(entry), entry being the k-th of initialPersona.history
handleRevert(k) ==
    /\ EditorOpen
    /\ activeTab = "editor"
    /\ k \in 1..Len(editingPersona[1].history)
    /\ parameters' = Reverted(parameters, editingPersona[1].history[k])
    /\ previousParameters' = Null
    /\ Did("revert", k, IF previousParameters # Null THEN "armed" ELSE "empty")
    /\ UserStep
    /\ UNCHANGED <<personas, saves, saveCalls, flows, appVars, createLoading, isLoading,
                   activeTab, error, calls>>

Next ==
    \/ handleOpenCreateModal /\ UNCHANGED passiveVars
    \/ \E i \in 1..MaxPersonas : handleOpenEditorModal(i) /\ UNCHANGED passiveVars
    \/ handleCloseModals /\ UNCHANGED passiveVars
    \/ \E i \in 1..MaxPersonas : handleDeletePersona(i) /\ UNCHANGED passiveVars
    \/ \E i \in 1..MaxSaves : SaveCommit(i) /\ UNCHANGED passiveVars
    \/ \E n \in CreateNames, s \in CreateSummaries : CreateSave(n, s) /\ UNCHANGED passiveVars
    \/ \E d \in ImportRecords : ImportJson(d) /\ UNCHANGED passiveVars
    \/ UploadText /\ UNCHANGED passiveVars
    \/ \E i \in 1..MaxFlows : UploadFailed(i) /\ UNCHANGED passiveVars
    \/ \E i \in 1..MaxFlows, x \in ExtractResults, r \in SummaryResponses :
          r.ok /\ UploadExtracted(i, x, r.text) /\ UNCHANGED passiveVars
    \/ \E e \in Edits : handleSaveField(e[1], e[2]) /\ UNCHANGED passiveVars
    \/ handleSave /\ UNCHANGED passiveVars

Spec == Init /\ [][Next]_vars

\* the editor with its calls to the gateway, over the store as it was loaded
EditorNext ==
    \/ \E i \in 1..MaxPersonas : handleOpenEditorModal(i) /\ UNCHANGED passiveVars
    \/ handleCloseModals /\ UNCHANGED passiveVars
    \/ \E e \in Edits : handleSaveField(e[1], e[2]) /\ UNCHANGED passiveVars
    \/ \E tab \in Tabs : handleTabChange(tab) /\ UNCHANGED passiveVars
    \/ handleSyncFromSummary /\ UNCHANGED passiveVars
    \/ \E i \in 1..MaxCalls, x \in SyncResults : SyncAnswered(i, x) /\ UNCHANGED passiveVars
    \/ \E i \in 1..MaxCalls : SyncFailed(i) /\ UNCHANGED passiveVars
    \/ handleExtractFromDoc /\ UNCHANGED passiveVars
    \/ \E i \in 1..MaxCalls, x \in DocResults : DocAnswered(i, x) /\ UNCHANGED passiveVars
    \/ \E i \in 1..MaxCalls : DocFailed(i) /\ UNCHANGED passiveVars
    \/ handleCreateFromWeb /\ UNCHANGED passiveVars
    \/ \E i \in 1..MaxCalls, x \in WebResults : WebAnswered(i, x) /\ UNCHANGED passiveVars
    \/ \E i \in 1..MaxCalls : WebFailed(i) /\ UNCHANGED passiveVars
    \/ \E i \in 1..MaxCalls, r \in SummaryResponses : WebSummaryDone(i, r) /\ UNCHANGED passiveVars
    \/ handleRefinementChatMessageSend /\ UNCHANGED passiveVars
    \/ \E i \in 1..MaxCalls, x \in RefineResults : RefinementAnswered(i, x) /\ UNCHANGED passiveVars
    \/ \E i \in 1..MaxCalls : RefinementFailed(i) /\ UNCHANGED passiveVars
    \/ handleUndo /\ UNCHANGED passiveVars
    \/ \E k \in 1..MaxRevert : handleRevert(k) /\ UNCHANGED passiveVars

\* the built-in persona with the stored versions the editor is asked to revert to
EditorInit == Started(<<DefaultPersona(StoredHistory(MaxRevert))>>)

EditorSpec == EditorInit /\ [][EditorNext]_vars

\* --------------------------------------------- passive regeneration
\* The revision of PersonaEditorModal that regenerates the summary by itself after
\* the structured fields changed.  Time passes in ticks of 500 ms.

\* debounce(handleGenerateSummary, 1500): the window, in ticks
Window == 3
MaxTimers == 2         \* timers pending at once, those of closed editors included

PassiveTabs == {"editor", "chat"}
ParamEdits == {<<"name", "">>, <<"role", "a">>, <<"role", "b">>}
SummaryEdits == {"b"}

\* const { summary, ...paramsOnly } = parameters
paramsOnly(p) == [f \in DOMAIN p \ {"summary"} |-> p[f]]

LiveTimers(q) == {i \in 1..Len(q) : q[i].live}

\* a debounce that sets a timer without clearing the one it set before
debounceStacking(q, args) == Append(q, [left |-> Window, args |-> args, live |-> TRUE])

\* the function debounce() returns, called with args: clearTimeout(timeout) of this
\* editor's pending timer, then timeout = setTimeout(..., waitFor)
debounce(q, args) ==
    Append(SelectSeq(q, LAMBDA t : ~t.live), [left |-> Window, args |-> args, live |-> TRUE])

\* the effect on [paramsOnlyString, isOpen, activeTab, debouncedGenerateSummary], after
\* a render in which one of them changed
RegenerationEffect(depsChanged, tab, params) ==
    timers' = IF depsChanged /\ ~isInitialMount /\ tab = "editor"
              THEN debounce(timers, params)
              ELSE timers

\* the editor is mounted: the reset effect sets isInitialMount.current = true and a
\* timer of 100 ms; the regeneration effect of this render returns at once
MountPassiveEditor(i) ==
    /\ Len(timers) < MaxTimers
    /\ handleOpenEditorModal(i)
    /\ isInitialMount' = TRUE
    /\ timers' = timers

\* the editor is unmounted: the cleanup clears the 100 ms timer; nothing clears the
\* timer of debounce(), which fires in a closure whose setState calls do nothing
UnmountPassiveEditor ==
    /\ handleCloseModals
    /\ isInitialMount' = FALSE
    /\ timers' = MarkDead(timers)

\* setTimeout(() => { isInitialMount.current = false; }, 100)
isInitialMountTimeout ==
    /\ EditorOpen
    /\ isInitialMount
    /\ isInitialMount' = FALSE
    /\ last' = Idle
    /\ UNCHANGED <<personas, now, elapsed, saves, saveCalls, flows, appVars, createLoading,
                   editorVars, timers>>

\* an input of the editor tab changes: handleParamChange, then the effect.  last.id
\* says whether the step before was such a change too (2) or not (1).
handleParamChange(name, value) ==
    /\ EditorOpen
    /\ activeTab = "editor"
    /\ parameters' = Spread(parameters, [k \in {name} |-> value])
    /\ RegenerationEffect(paramsOnly(parameters') # paramsOnly(parameters), activeTab, parameters')
    /\ Did("edit", IF last.op = "edit" /\ last.origin = "param" THEN 2 ELSE 1, "param")
    /\ UserStep
    /\ UNCHANGED <<personas, saves, saveCalls, flows, appVars, createLoading, previousParameters,
                   isLoading, activeTab, error, calls, isInitialMount>>

\* the summary textarea changes: paramsOnlyString stays what it was
handleSummaryChange(value) ==
    /\ EditorOpen
    /\ activeTab = "editor"
    /\ parameters' = Spread(parameters, [summary |-> value])
    /\ RegenerationEffect(paramsOnly(parameters') # paramsOnly(parameters), activeTab, parameters')
    /\ Did("edit", NoId, "summary")
    /\ UserStep
    /\ UNCHANGED <<personas, saves, saveCalls, flows, appVars, createLoading, previousParameters,
                   isLoading, activeTab, error, calls, isInitialMount>>

\* the tab buttons: setActiveTab(tab), then the effect
setActiveTab(tab) ==
    /\ EditorOpen
    /\ tab # activeTab
    /\ activeTab' = tab
    /\ RegenerationEffect(TRUE, tab, parameters)
    /\ last' = Idle
    /\ UserStep
    /\ UNCHANGED <<personas, saves, saveCalls, flows, appVars, createLoading, parameters,
                   previousParameters, isLoading, error, calls, isInitialMount>>

\* 500 ms pass; a timer that is due fires first, and so does the timer of 100 ms
Tick ==
    /\ timers # <<>>
    /\ ~isInitialMount
    /\ \A i \in 1..Len(timers) : timers[i].left > 0
    /\ timers' = [i \in 1..Len(timers) |-> [timers[i] EXCEPT !.left = @ - 1]]
    /\ last' = Idle
    /\ now' = now
    /\ elapsed' = TRUE
    /\ UNCHANGED <<personas, saves, saveCalls, flows, appVars, createLoading, editorVars,
                   isInitialMount>>

\* handleGenerateSummary up to its await: without a name it returns and says nothing.
\* origin is "passive" for the call by timer i and "refresh" for the button's.
handleGenerateSummary(paramsToSummarize, i, origin) ==
    IF paramsToSummarize.name = ""
    THEN /\ Did("skipped", i, origin)
         /\ UNCHANGED editorVars
    ELSE /\ Len(calls) < MaxCalls
         /\ error' = FALSE
         /\ isLoading' = TRUE
         /\ Dispatch(origin, paramsToSummarize)
         /\ Did("sent", i, origin)
         /\ UNCHANGED <<parameters, previousParameters, activeTab>>

\* the timer of debounce() fires: resolve(func(...args)).  In the closure of an
\* editor that was closed the request is sent and no state is set.
TimerFires(i) ==
    /\ i \in 1..Len(timers)
    /\ timers[i].left = 0
    /\ timers' = RemoveAt(timers, i)
    /\ IF timers[i].live
       THEN handleGenerateSummary(timers[i].args, i, "passive")
       ELSE /\ Did(IF timers[i].args.name = "" THEN "skipped" ELSE "sent", i, "closed")
            /\ UNCHANGED editorVars
    /\ UNCHANGED <<personas, now, elapsed, saves, saveCalls, flows, appVars, createLoading,
                   isInitialMount>>

\* Refresh Summary: onClick={() => handleGenerateSummary(parameters)}, disabled
\* while isLoading
RefreshSummary ==
    /\ EditorOpen
    /\ activeTab = "editor"
    /\ ~isLoading
    /\ handleGenerateSummary(parameters, NoId, "refresh")
    /\ UserStep
    /\ UNCHANGED <<personas, saves, saveCalls, flows, appVars, createLoading, passiveVars>>

\* ... generateSummaryFromParams answers or throws: the catch logs to the console
GenerateSummaryDone(i, resp) ==
    /\ i \in 1..Len(calls)
    /\ calls[i].kind \in {"passive", "refresh"}
    /\ calls' = RemoveAt(calls, i)
    /\ isLoading' = FALSE
    /\ parameters' = IF resp.ok THEN Spread(parameters, [summary |-> resp.text]) ELSE parameters
    /\ RegenerationEffect(paramsOnly(parameters') # paramsOnly(parameters), activeTab, parameters')
    /\ Did(IF resp.ok THEN "answered" ELSE "failed", NoId, calls[i].kind)
    /\ UNCHANGED <<personas, now, elapsed, saves, saveCalls, flows, appVars, createLoading,
                   previousParameters, activeTab, error, isInitialMount>>

PassiveNext ==
    \/ \E i \in 1..MaxPersonas : MountPassiveEditor(i)
    \/ UnmountPassiveEditor
    \/ isInitialMountTimeout
    \/ \E e \in ParamEdits : handleParamChange(e[1], e[2])
    \/ \E s \in SummaryEdits : handleSummaryChange(s)
    \/ \E tab \in PassiveTabs : setActiveTab(tab)
    \/ Tick
    \/ \E i \in 1..MaxTimers : TimerFires(i)
    \/ RefreshSummary
    \/ \E i \in 1..MaxCalls, r \in SummaryResponses : GenerateSummaryDone(i, r)

\* the built-in persona as the store holds it when nothing was ever saved
PassiveInit == Started(<<DefaultPersona(<<>>)>>)

PassiveSpec == PassiveInit /\ [][PassiveNext]_vars

\* ------------------------------------------------------------- merges
\* The editor with the calls whose answers are merged into its state, and answers
\* that carry the optional and the unexpected keys.

\* `other` is optional in personaSchema: an answer may omit it or carry it empty
MergeSyncResults == SyncResults \cup {Spread(Required("El", "c"), [other |-> ""])}
MergeDocResults == DocResults \cup {Spread(Required("El", "b"), [other |-> ""])}
\* updatedParameters is parsed from free text: any key of the current state may come
MergeRefineResults == {[summary |-> "c"]}

MergeNext ==
    \/ \E i \in 1..MaxPersonas : handleOpenEditorModal(i) /\ UNCHANGED passiveVars
    \/ handleCloseModals /\ UNCHANGED passiveVars
    \/ \E tab \in Tabs : handleTabChange(tab) /\ UNCHANGED passiveVars
    \/ handleSyncFromSummary /\ UNCHANGED passiveVars
    \/ \E i \in 1..MaxCalls, x \in MergeSyncResults : SyncAnswered(i, x) /\ UNCHANGED passiveVars
    \/ \E i \in 1..MaxCalls : SyncFailed(i) /\ UNCHANGED passiveVars
    \/ handleExtractFromDoc /\ UNCHANGED passiveVars
    \/ \E i \in 1..MaxCalls, x \in MergeDocResults : DocAnswered(i, x) /\ UNCHANGED passiveVars
    \/ \E i \in 1..MaxCalls : DocFailed(i) /\ UNCHANGED passiveVars
    \/ handleRefinementChatMessageSend /\ UNCHANGED passiveVars
    \/ \E i \in 1..MaxCalls, x \in MergeRefineResults : RefinementAnswered(i, x) /\ UNCHANGED passiveVars
    \/ \E i \in 1..MaxCalls : RefinementFailed(i) /\ UNCHANGED passiveVars

MergeSpec == PassiveInit /\ [][MergeNext]_vars

\* ------------------------------------------------------ store properties
\* this step is the commit of a save that found the persona at position i to update
Updated(i) == last'.op = "update" /\ i \in 1..Len(personas) /\ personas[i].id = last'.id

\* this step added a persona to the store
Created == Len(personas') > Len(personas)

Entries(h, from, to) == {h[k] : k \in from..to}

\* C1: no history is ever longer than HistoryCap, and the commit of a save of a
\* persona whose stored history is full removes the entry that was last in the
\* list and no other
C1_CapAndOldestEvicted ==
    [][/\ \A i \in 1..Len(personas') : Len(personas'[i].history) <= HistoryCap
       /\ \A i \in 1..Len(personas) :
             Updated(i) /\ Len(personas[i].history) = HistoryCap
             => /\ Len(personas'[i].history) = HistoryCap
                /\ Entries(personas'[i].history, 2, HistoryCap)
                      = Entries(personas[i].history, 1, HistoryCap - 1)]_vars

\* C2: the state of the entry a commit puts in a persona's history is, field for
\* field, the state the store held for that persona immediately before the commit
C2_EntryStateIsStoredState ==
    [][\A i \in 1..Len(personas) :
          Updated(i) => personas'[i].history[1].state = OldStateOf(personas[i])]_vars

\* C3: a draft whose name is empty is accepted on no path: none is in flight in
\* handleSavePersona and none is in the store
C3_EmptyNameNeverAccepted ==
    /\ \A i \in 1..Len(saves) : saves[i].draft.name # ""
    /\ \A i \in 1..Len(personas) : personas[i].name # ""

IdsOf(ps) == [i \in 1..Len(ps) |-> ps[i].id]

\* C4: no two stored personas have the same id, and no step changes the id of a
\* stored persona
C4_IdsUniqueAndFixed ==
    [][/\ \A i, j \in 1..Len(personas') : i # j => personas'[i].id # personas'[j].id
       /\ Len(personas') >= Len(personas)
          => SubSeq(IdsOf(personas'), 1, Len(personas)) = IdsOf(personas)]_vars

\* C9: a persona is added to the store only by a commit, with an empty history and
\* the id read from the clock at that commit, whatever the saved record carried;
\* the commit of a save started by the
\* create modal, an import or a document extraction always adds one; a stored
\* history changes only in the commit of a save the editor started for that
\* persona; opening the create modal leaves the store alone
C9_HistoryOnlyFromUpdates ==
    [][/\ Created
          => /\ last'.op = "create"
             /\ personas'[Len(personas')].history = <<>>
             /\ personas'[Len(personas')].id = NewId(now')
             /\ SubSeq(personas', 1, Len(personas)) = personas
       /\ last'.op \in {"create", "update"} /\ last'.origin \in {"create", "import", "doc"}
          => Created
       /\ \A i \in 1..Len(personas) :
             Len(personas') = Len(personas) /\ personas'[i].history # personas[i].history
             => Updated(i) /\ last'.origin = "editor"
       /\ isCreateModalOpen' /\ ~isCreateModalOpen => personas' = personas]_vars

\* a record that carried an id and a history was imported and stored as a new persona
C9_ImportedRecordStored ==
    /\ last.op = "create"
    /\ last.origin = "import"
    /\ personas[Len(personas)].summary = "b"
    /\ personas[Len(personas)].history = <<>>
    /\ \E i \in 1..Len(personas) : personas[i].id = DefaultId /\ personas[i].history # <<>>

\* C10: the commit of a save of a stored persona puts an entry stamped with the
\* instant of the commit in front of the history the store held, whose entries,
\* but for one that the cap evicts, follow unchanged and in the same order
C10_NewEntryInFront ==
    [][\A i \in 1..Len(personas) :
          Updated(i)
          => LET h == personas[i].history
                 kept == IF Len(h) < HistoryCap THEN Len(h) ELSE HistoryCap - 1
             IN /\ Len(personas'[i].history) = kept + 1
                /\ personas'[i].history[1].timestamp = now'
                /\ SubSeq(personas'[i].history, 2, kept + 1) = SubSeq(h, 1, kept)]_vars

\* ----------------------------------------------------- editor properties
ArmedKinds == {"sync", "doc", "web"}

\* C5: an armed dispatch puts the editor state of that moment in the buffer and
\* leaves the editor state alone; nothing else puts a snapshot in the buffer, so
\* the buffer holds the state before the latest armed dispatch and no earlier one;
\* undo makes the buffered snapshot the editor state
C5_UndoRestoresLatestSnapshot ==
    [][/\ last'.op = "arm"
          => previousParameters' = Some(parameters) /\ parameters' = parameters
       /\ previousParameters' # previousParameters /\ previousParameters' # Null
          => last'.op = "arm"
       /\ last'.op = "undo" /\ previousParameters # Null
          => parameters' = previousParameters[1]]_vars

\* undo has restored the result of a first sync, which a second armed action had
\* put in the buffer: role "c" is set by no edit and no other answer
C5_SecondSnapshotRestored ==
    /\ last.op = "undo"
    /\ last.origin = "armed"
    /\ parameters.role = "c"

\* C6: when the armed call of a sync, an extraction or a web regeneration fails,
\* the buffer is empty afterwards and the failure changes no field of the editor
\* state
C6_FailedCallDisarms ==
    [][last'.op = "failed" /\ last'.origin \in ArmedKinds
       => previousParameters' = Null /\ parameters' = parameters]_vars

\* an armed call has failed in an editor whose state an earlier sync had changed
C6_ArmedCallFailed ==
    /\ last.op = "failed"
    /\ last.origin \in ArmedKinds
    /\ previousParameters = Null
    /\ parameters.role = "c"
    /\ error

\* C7: a revert sets every field of the entry's snapshot in the editor state to
\* the snapshot's value and leaves the buffer empty
C7_RevertSetsSnapshotFields ==
    [][last'.op = "revert"
       => LET entry == editingPersona[1].history[last'.id]
          IN /\ \A f \in DOMAIN entry.state : parameters'[f] = entry.state[f]
             /\ previousParameters' = Null]_vars

\* a revert has acted while the buffer held a snapshot, to an entry whose role is
\* not the stored one
C7_RevertedWhileArmed ==
    /\ last.op = "revert"
    /\ last.origin = "armed"
    /\ previousParameters = Null
    /\ parameters.role = editingPersona[1].history[last.id].state.role
    /\ parameters.role # editingPersona[1].role

\* C8: the buffer never holds more than one snapshot; undo leaves it empty, and an
\* undo on an empty buffer changes neither the editor state nor the buffer
C8_SingleSlotNoRedo ==
    [][/\ Len(previousParameters') <= 1
       /\ last'.op = "undo"
          => /\ previousParameters' = Null
             /\ previousParameters = Null => parameters' = parameters]_vars

\* a second undo right after an undo
C8_UndoneTwice ==
    /\ last.op = "undo"
    /\ last.origin = "again"
    /\ previousParameters = Null


\* ---------------------------------------- passive regeneration properties
\* this step changed a structured field
StructuredEdit ==
    /\ last'.op = "edit" /\ last'.origin = "param"
    /\ paramsOnly(parameters') # paramsOnly(parameters)

\* this step set a timer of the open editor
Arming ==
    \E j \in LiveTimers(timers') :
        /\ timers'[j].left = Window
        /\ \A i \in LiveTimers(timers) : timers[i] # timers'[j]

\* the open editor has one timer, a full window from now, carrying args
Armed(q, args) ==
    /\ Cardinality(LiveTimers(q)) = 1
    /\ \A j \in LiveTimers(q) : q[j].left = Window /\ q[j].args = args

\* this step was a timer of the open editor firing
Fired == last'.origin = "passive" /\ last'.op \in {"sent", "skipped"}

PassiveCalls(q) == {i \in 1..Len(q) : q[i].kind = "passive"}

C12_NoRequestOffEditorTab ==
    [][/\ Arming => isEditorModalOpen /\ ~isInitialMount
       /\ last'.origin = "passive" /\ last'.op = "sent" => activeTab = "editor"]_vars

\* C13: of the passive summary-regeneration requests of one editor session, at most
\* one is waiting for its answer at any time.
C13_OnePassiveInFlight == Cardinality(PassiveCalls(calls)) <= 1

\* C14: while the editor is open the summary changes only in a step of the user
\* editing it or of an action the user invoked for it (the answer to Refresh Summary,
\* undo, revert), never in a step that follows from a change of structured fields.
C14_SummaryOnlyByExplicitAction ==
    [][isEditorModalOpen /\ isEditorModalOpen' /\ parameters'.summary # parameters.summary
       => \/ last'.op = "edit" /\ last'.origin = "summary"
          \/ last'.op = "answered" /\ last'.origin = "refresh"
          \/ last'.op \in {"undo", "revert"}]_vars

\* ----------------------------------------------------- merge properties
\* this step merged the answer of a document extraction or of a sync from summary
ExtractionMerged == last'.op = "answered" /\ last'.origin \in {"sync", "doc"}

\* C15: a merge of an extraction result (document extraction, sync from summary)
\* into a state whose `other` is non-empty leaves `other` non-empty, and unchanged
\* unless the result carries a non-empty `other` of its own.
C15_OtherSurvivesMerge ==
    [][ExtractionMerged /\ parameters.other # ""
       => /\ parameters'.other # ""
          /\ parameters'.other # parameters.other
             => \E x \in MergeSyncResults \cup MergeDocResults :
                   "other" \in DOMAIN x /\ x.other = parameters'.other]_vars

\* C20: the step that applies the answer of Sync from Summary merges it over the
\* editor state of that moment: every field the result carries takes the result's
\* value, every other field (id included) keeps the value it has at that moment.
C20_SyncMergesOverCurrent ==
    [][last'.op = "answered" /\ last'.origin = "sync"
       => /\ parameters'.id = parameters.id
          /\ \E x \in MergeSyncResults :
                /\ DOMAIN parameters' = DOMAIN parameters \cup DOMAIN x
                /\ \A f \in DOMAIN parameters' :
                      parameters'[f] = IF f \in DOMAIN x THEN x[f] ELSE parameters[f]]_vars

\* a sync was answered after the summary had changed while the call was in flight:
\* the state holds the result's role and the summary of the time of the answer
C20_MergedOverLaterState ==
    /\ last.op = "answered" /\ last.origin = "sync"
    /\ previousParameters # Null
    /\ previousParameters[1].summary # "c"
    /\ parameters.summary = "c"
    /\ parameters.role = "c"
    /\ parameters.id = DefaultId

\* C16: the step in which a gateway call of an explicit action fails (sync, document
\* extraction, web regeneration and the summary generation that follows it,
\* refinement chat) changes no field of the editor state, and where the action has
\* made an earlier call, the state is the one the action started from, which is
\* the snapshot it took for undo while the buffer still holds one: nothing of any
\* of its results stays merged.
C16_FailureLeavesStateAsBefore ==
    [][last'.op = "failed"
       => /\ parameters' = parameters
          /\ last'.origin = "websum" /\ previousParameters # Null
             => parameters' = previousParameters[1]]_vars

\* ------------------------------------------------ save error handling
\* C17: the commit of a save of an existing persona, which follows the
\* change-description call whether it answered, answered nothing or failed, puts
\* in front of the history an entry of that instant whose changeSummary is not
\* empty, and is the fixed generic description when the call failed.
C17_SaveRecordsChange ==
    [][\A i \in 1..Len(personas) :
          Updated(i)
          => /\ personas'[i].history # <<>>
             /\ personas'[i].history[1].changeSummary # ""
             /\ personas'[i].history[1].timestamp = now'
             /\ "changeSummary" \in last'.failed
                => personas'[i].history[1].changeSummary = GenericChange]_vars

\* a save has committed after its change-description call failed: the entry in
\* front carries the generic description
C17_CommittedAfterFailure ==
    /\ last.op = "update"
    /\ "changeSummary" \in last.failed
    /\ \E i \in 1..Len(personas) :
          /\ personas[i].id = last.id
          /\ personas[i].history[1].changeSummary = GenericChange
          /\ personas[i].history[1].timestamp = now

\* the persona a commit has written: the one updated, or the one appended
Written(i) ==
    /\ i \in 1..Len(personas')
    /\ \/ Updated(i)
       \/ last'.op = "create" /\ Created /\ i = Len(personas')

\* C18 as the specification states it: when the call that derives a short form
\* failed, the save commits and the stored short form is the empty string.
C18_EmptyShortFormOnFailure ==
    [][\A i \in 1..MaxPersonas :
          Written(i)
          => /\ "shortSummary" \in last'.failed => personas'[i].shortSummary = ""
             /\ "shortTone" \in last'.failed => personas'[i].shortTone = ""]_vars

\* C18 (amended): when the call that derives a short form failed, the save commits
\* and the stored short form is the full text cut to its first 50 characters (with
\* "..." behind a text that was longer), which is not empty.
C18_TruncatedShortFormOnFailure ==
    [][\A i \in 1..MaxPersonas :
          Written(i)
          => /\ "shortSummary" \in last'.failed
                => /\ personas'[i].shortSummary = Truncate(personas'[i].summary)
                   /\ personas'[i].shortSummary # ""
             /\ "shortTone" \in last'.failed
                => /\ personas'[i].shortTone = Truncate(personas'[i].tone)
                   /\ personas'[i].shortTone # ""]_vars

\* a save has committed after its short-summary call failed on a long summary: the
\* stored short form is the cut text
C18_CommittedWithCutSummary ==
    /\ last.op \in {"update", "create"}
    /\ "shortSummary" \in last.failed
    /\ \E i \in 1..Len(personas) :
          /\ personas[i].id = last.id
          /\ personas[i].summary \in LongTexts
          /\ personas[i].shortSummary = Truncate(personas[i].summary)
          /\ personas[i].shortSummary # personas[i].summary

\* ------------------------------------------ summary regeneration errors
\* this step set the error banner
ErrorSet == error' /\ ~error

\* C19: a step of a summary regeneration sets the error exactly when the attempt is
\* the one of Refresh Summary and either is given no name, in which case no request
\* is sent, or its request fails; the passive attempt sets no error in any of its
\* steps; an attempt that has no name or fails leaves the summary as it is.
C19_ErrorOnlyFromExplicitAttempt ==
    [][/\ last'.origin = "refresh"
          => /\ last'.op \in {"skipped", "failed"} => error' /\ parameters' = parameters
             /\ last'.op \in {"sent", "answered"} => ~ErrorSet
             /\ last'.op = "skipped" => calls' = calls
       /\ last'.origin = "passive"
          => /\ ~ErrorSet
             /\ last'.op \in {"skipped", "failed"} => parameters' = parameters
             /\ last'.op = "skipped" => calls' = calls
       /\ ErrorSet => last'.origin = "refresh" /\ last'.op \in {"skipped", "failed"}]_vars

\* ------------------------------------------------- concurrency of the store
\* C21: the commit of a save of a stored persona leaves in the store, for that
\* persona, the entry it pushes followed by the history the store held for the
\* persona immediately before the commit (cut to the cap): what was committed
\* since the save read the previous state is still there.
C21_SaveAtomicOverStore ==
    [][\A i \in 1..Len(personas) :
          Updated(i)
          => personas'[i].history
                = Slice(<<personas'[i].history[1]>> \o personas[i].history, HistoryCap)]_vars

\* ------------------------------------------- saves during an editor session
\* The editor with its calls to the gateway while saves commit: a commit sets
\* editingPersona, and the reset effect of the mounted editor runs.
SessionNext ==
    \/ \E i \in 1..MaxPersonas : handleOpenEditorModal(i) /\ UNCHANGED passiveVars
    \/ handleCloseModals /\ UNCHANGED passiveVars
    \/ \E tab \in Tabs : handleTabChange(tab) /\ UNCHANGED passiveVars
    \/ handleSave /\ UNCHANGED passiveVars
    \/ \E i \in 1..MaxSaves : SaveCommit(i) /\ UNCHANGED passiveVars
    \/ handleSyncFromSummary /\ UNCHANGED passiveVars
    \/ \E i \in 1..MaxCalls, x \in SyncResults : SyncAnswered(i, x) /\ UNCHANGED passiveVars
    \/ \E i \in 1..MaxCalls : SyncFailed(i) /\ UNCHANGED passiveVars
    \/ handleRefinementChatMessageSend /\ UNCHANGED passiveVars
    \/ \E i \in 1..MaxCalls, x \in RefineResults : RefinementAnswered(i, x) /\ UNCHANGED passiveVars
    \/ \E i \in 1..MaxCalls : RefinementFailed(i) /\ UNCHANGED passiveVars

SessionSpec == PassiveInit /\ [][SessionNext]_vars

\* this step handled the answer or the failure of a call of the editor
CallSettled == Len(calls') < Len(calls) /\ isEditorModalOpen'

\* C22: the answer of a gateway call that is handled right after a commit has
\* re-initialised the open editor, the call having been made before, changes
\* neither the editor state nor the undo buffer.
C22_StaleResponseDiscarded ==
    [][last.op \in {"update", "create"} /\ isEditorModalOpen /\ CallSettled
       => parameters' = parameters /\ previousParameters' = previousParameters]_vars

\* ------------------------------------------------- cancelled creation
\* the saves the create dialog starts itself: its Create button and a .json import
DialogOrigins == {"create", "import"}

\* this step is the commit of a save the create dialog started and the user cancelled
\* by closing the dialog while the short forms were being derived
CancelledCommit ==
    /\ last'.op \in {"create", "update"}
    /\ last'.origin \in DialogOrigins
    /\ Len(saves') < Len(saves)
    /\ \A i \in 1..Len(saves) : saves[i].origin \in DialogOrigins => ~saves[i].live

\* C23: the commit of a save of the create dialog that the user had cancelled adds
\* no persona to the store and opens no editor.
C23_CancelledFlowAddsNothing ==
    [][CancelledCommit
       => /\ personas' = personas
          /\ isEditorModalOpen' = isEditorModalOpen
          /\ editingPersona' = editingPersona]_vars

\* ------------------------------------------------------ frame of the store
\* the positions at which this step changed the store
Changed == {i \in 1..Len(personas) : i > Len(personas') \/ personas'[i] # personas[i]}

\* C24: the commit of a save of a stored persona leaves the number and the order of
\* the personas as they are and changes one persona at most, the one with the id of
\* the save; a delete removes one persona, the one with the id given, and leaves the
\* others as they are and in their order.
C24_OnlyTargetChanges ==
    [][/\ last'.op = "update"
          => /\ Len(personas') = Len(personas)
             /\ IdsOf(personas') = IdsOf(personas)
             /\ Cardinality(Changed) <= 1
             /\ \A i \in Changed : personas[i].id = last'.id
       /\ last'.op = "delete"
          => \E i \in 1..Len(personas) :
                /\ personas[i].id = last'.id
                /\ personas' = RemoveAt(personas, i)]_vars

\* ------------------------------------------------------------- import
\* the fields of PersonaState that a record may carry
PersonaStateFields == DOMAIN emptyPersona \cup {"mbtiProfile"}

\* what the field f of the record d is stored as
ImportedValue(d, f) ==
    IF f \in DOMAIN d THEN d[f]
    ELSE IF f = "sources" THEN <<>>
    ELSE IF f = "mbtiProfile" THEN Absent
    ELSE ""

\* p holds, in the fields of PersonaState, what some record with a name field carries
FromRecordWithName(p) ==
    \E d \in ImportRecords :
        /\ "name" \in DOMAIN d
        /\ \A f \in PersonaStateFields : f \in DOMAIN p /\ p[f] = ImportedValue(d, f)

ExplicitKinds == {"sync", "doc", "web", "websum"}

ExplicitCalls(q) == {i \in 1..Len(q) : q[i].kind \in ExplicitKinds}

\* C26: of the requests of the explicit actions of one editor session, at most one
\* is waiting for its answer at any time.
C26_ExplicitCallsSerial == Cardinality(ExplicitCalls(calls)) <= 1

\* ------------------------------------------------- last response wins
\* the fields an answer to a call of this kind may carry
Carried(kind) ==
    CASE kind = "sync" -> UNION {DOMAIN x : x \in SyncResults}
      [] kind = "doc" -> UNION {DOMAIN x : x \in DocResults}
      [] kind = "web" -> UNION {DOMAIN x : x \in WebResults}
      [] kind = "refine" -> UNION {DOMAIN x : x \in RefineResults}
      [] OTHER -> {"summary"}

\* the fields of the editor state this step changed
ChangedFields ==
    {f \in DOMAIN parameters \cup DOMAIN parameters' :
        f \notin DOMAIN parameters \/ f \notin DOMAIN parameters' \/ parameters'[f] # parameters[f]}

\* this step handled the answer to call i of the open editor
Answers(i) ==
    /\ i \in 1..Len(calls)
    /\ isEditorModalOpen'
    /\ \/ calls' = RemoveAt(calls, i)
       \/ /\ calls[i].kind = "web"
          /\ calls' = Append(RemoveAt(calls, i), [kind |-> "websum", snap |-> emptyPersona])

\* C27: the step that applies the answer to a call changes only fields that the
\* answer carries; every other field keeps the value it has at that moment, whatever
\* it was when the call was made.
C27_LastResponseWinsPerField ==
    [][\A i \in 1..MaxCalls : Answers(i) => ChangedFields \subseteq Carried(calls[i].kind)]_vars

\* ------------------------------------------------ refinement and undo
\* this step sent a refinement message, or handled the answer or the failure of one
RefinementStep ==
    \/ calls' = Append(calls, [kind |-> "refine", snap |-> emptyPersona])
    \/ /\ isEditorModalOpen'
       /\ \E i \in 1..Len(calls) : calls[i].kind = "refine" /\ calls' = RemoveAt(calls, i)

\* C28: no step of a refinement exchange (message sent, answer merged, failure)
\* changes the undo buffer; and an undo makes the snapshot the buffer holds the
\* editor state, whatever a refinement has merged since the snapshot was taken.
C28_RefinementKeepsBuffer ==
    [][/\ RefinementStep => previousParameters' = previousParameters
       /\ last'.op = "undo" /\ previousParameters # Null
          => parameters' = previousParameters[1] /\ previousParameters' = Null]_vars

\* a refinement has been answered after a sync: the state holds the result of the
\* sync, the buffer the state from before it
C28_RefinedAfterSync ==
    /\ last.op = "answered" /\ last.origin = "refine"
    /\ previousParameters # Null
    /\ previousParameters[1].role # "c"
    /\ parameters.role = "c"

\* ------------------------------------------- the editor after a commit
\* C29: after the commit of a save of a stored persona, the open editor shows the
\* persona as the store holds it: editingPersona is the stored persona with the id
\* of the save, whose history starts with the entry of this commit, the editor state
\* is initialised from it, and the undo buffer is empty.
C29_EditorShowsStoredPersona ==
    [][last'.op = "update" /\ isEditorModalOpen'
       => LET stored == Find(personas', last'.id)
          IN /\ stored # Null
             /\ editingPersona' = stored
             /\ stored[1].history # <<>>
             /\ stored[1].history[1].timestamp = now'
             /\ parameters' = InitialParameters(stored[1])
             /\ previousParameters' = Null]_vars

\* ------------------------------------------------ delete during a save
\* the save sv was started for a persona that was in the store then and is not now
DeletedInFlight(sv) ==
    /\ Get(sv.draft, "id", NoId) # NoId
    /\ Find(sv.closure, sv.draft.id) # Null
    /\ Find(personas, sv.draft.id) = Null

\* C30: the commit of a save whose persona was deleted from the store after the
\* save had started leaves the store as it is: no persona has the deleted id and
\* none is added.
C30_DeletedStaysDeleted ==
    [][\A i \in 1..Len(saves) :
          saves' = RemoveAt(saves, i) /\ last'.op \in {"update", "create"}
             /\ DeletedInFlight(saves[i])
          => /\ personas' = personas
             /\ Find(personas', saves[i].draft.id) = Null]_vars

\* the save of a persona that was deleted meanwhile has committed: it took the
\* update branch and the store holds no persona with its id
C30_CommittedAfterDelete ==
    /\ last.op = "update"
    /\ last.origin = "editor"
    /\ last.id = DefaultId
    /\ Find(personas, DefaultId) = Null

====
